---- MODULE Spec2Model ----
(***************************************************************************)
(* Model of the price monitor of src/main.py: PriceMonitor.run_forever,    *)
(* PriceMonitor.check_once and PriceMonitor._check_single_product, with    *)
(* the fetcher, the parser, the notifier and the artifact file as          *)
(* nondeterministic collaborators (Spec, FairSpec), and the functions      *)
(* AmazonPriceParser.extract_price, _parse_brazilian_currency and          *)
(* PriceMonitor._random_retry_delay applied on their own (PureSpec).       *)
(***************************************************************************)
EXTENDS Integers, Sequences, FiniteSets, TLC

\* ---------------------------------------------------------------- bounds
MaxProducts == 3        \* longest product list explored
MaxRetriesBound == 2    \* largest max_retries_per_product explored
MaxTarget == 1          \* largest target price explored
MaxTextLen == 3         \* longest enumerated currency text
MaxBaseDelay == 4       \* largest retry_delay_seconds explored
Resolution == 2         \* time units per second
MaxDelayCalls == 2      \* calls of _random_retry_delay explored in a row

\* ------------------------------------------------------- values and types
\* Optional values: None is the empty tuple, Some(x) the one-element tuple.
None == <<>>
Some(x) == <<x>>

\* Bodies the fetcher can return; "" is the empty response text.
Bodies == {"", "A", "B"}

\* Prices the parser can return: below, at and above every target.
Prices == 0..(MaxTarget + 1)

\* A Product, reduced to the field the control flow reads.
Product == [target_price : 1..MaxTarget]

\* Python truthiness of an Optional[str]: None and "" are both falsy.
Truthy(h) == h # None /\ h[1] # ""

\* Kinds of attempt outcome, and the counted calls of one check.
Kinds == {"transport", "miss", "parse_error", "resolved", "delivery"}
Calls == {"fetch", "wait", "gate", "notify", "archive"}

VARIABLES
  products,       \* self._products
  max_retries,    \* self._max_retries_per_product
  pc,             \* position of the single thread of control
  idx,            \* 1-based index of check_once's loop
  attempts,       \* local attempts of _check_single_product
  last_html,      \* local last_html of _check_single_product
  current_price,  \* local current_price of _check_single_product
  artifact,       \* content of last_failed.html (None: no file)
  count,          \* history: calls made during the current check
  tally,          \* history: how the attempts of the current check ended
  passTrace,      \* history: checks and sleeps of the current pass
  fetched,        \* history: body returned by the latest fetch_html call of
                  \* the current check (None: it raised, or none was made)
  text,           \* argument of _parse_brazilian_currency
  page,           \* argument of extract_price, as its selector results
  retry_delay_seconds,  \* self._retry_delay_seconds
  parsed,         \* value returned by the parser function applied
  delay,          \* value returned by _random_retry_delay
  applied         \* the function applied last, "none" before any

vars == <<products, max_retries, pc, idx, attempts, last_html, current_price,
          artifact, count, tally, passTrace, fetched, text, page,
          retry_delay_seconds, parsed, delay, applied>>

config == <<products, max_retries>>

\* The arguments and results of the functions applied on their own.
pure == <<text, page, retry_delay_seconds, parsed, delay, applied>>

\* The state of the monitor loop and of the check in progress.
monitor == <<products, max_retries, pc, idx, attempts, last_html,
             current_price, artifact, count, tally, passTrace, fetched>>

ZeroCount == [c \in Calls |-> 0]
ZeroTally == [k \in Kinds |-> 0]

Bump(f, k) == [f EXCEPT ![k] = @ + 1]

\* ------------------------------------------------------- AmazonPriceParser
\* A text is the tuple of its characters.
Digits == {"0", "1", "2", "3", "4", "5", "6", "7", "8", "9"}

DigitValue(c) ==
  CASE c = "0" -> 0 [] c = "1" -> 1 [] c = "2" -> 2 [] c = "3" -> 3
    [] c = "4" -> 4 [] c = "5" -> 5 [] c = "6" -> 6 [] c = "7" -> 7
    [] c = "8" -> 8 [] c = "9" -> 9

\* The integer written by a tuple of digits (0 for the empty tuple).
RECURSIVE DigitsToInt(_)
DigitsToInt(ds) ==
  IF ds = <<>> THEN 0
  ELSE 10 * DigitsToInt(SubSeq(ds, 1, Len(ds) - 1)) + DigitValue(ds[Len(ds)])

\* A float is the pair <<num, scale>> standing for num / 10^scale, with no
\* trailing zero in the fraction, so that equal numbers are equal pairs.
RECURSIVE Canon(_, _)
Canon(num, scale) ==
  IF scale > 0 /\ num % 10 = 0 THEN Canon(num \div 10, scale - 1)
  ELSE <<num, scale>>

\* float(s): digits with at most one "." and at least one digit; anything
\* else raises ValueError.
PyFloat(s) ==
  LET dots == {i \in 1..Len(s) : s[i] = "."}
      digs == SelectSeq(s, LAMBDA c : c \in Digits)
      after == IF dots = {} THEN 0
               ELSE Len(s) - (CHOOSE i \in dots : TRUE)
  IN IF \/ \E i \in 1..Len(s) : s[i] \notin Digits \cup {"."}
        \/ Cardinality(dots) > 1
        \/ digs = <<>>
       THEN [raises |-> TRUE, value |-> <<0, 0>>]
       ELSE [raises |-> FALSE, value |-> Canon(DigitsToInt(digs), after)]

\* re.sub(r"[^\d,\.]", "", text)
Filtered(t) == SelectSeq(t, LAMBDA c : c \in Digits \cup {",", "."})

\* filtered.replace(".", "").replace(",", ".")
Normalized_keepsDots(f) ==
  [i \in 1..Len(f) |-> IF f[i] = "," THEN "." ELSE f[i]]
Normalized(f) ==
  LET noDots == SelectSeq(f, LAMBDA c : c # ".")
  IN [i \in 1..Len(noDots) |-> IF noDots[i] = "," THEN "." ELSE noDots[i]]

\* AmazonPriceParser._parse_brazilian_currency
parse_brazilian_currency(t) ==
  LET filtered == Filtered(t)
  IN IF filtered = <<>> THEN None
     ELSE LET r == PyFloat(Normalized(filtered))
          IN IF r.raises THEN None ELSE Some(r.value)

\* A page is what the selectors find in it: for each selector None, or the
\* stripped text of the first matching node.
\*   offscreen       soup.select_one("span.a-offscreen")
\*   core_offscreen  soup.select_one("#corePrice_feature_div span.a-offscreen")
\*   whole           soup.select_one("span.a-price-whole")
\*   frac            soup.select_one("span.a-price-fraction")
\* f"R$ {whole_text},{frac_text}"
Composed_fractionFirst(whole_text, frac_text) ==
  <<"R", "$", " ">> \o frac_text \o <<",">> \o whole_text
Composed(whole_text, frac_text) ==
  <<"R", "$", " ">> \o whole_text \o <<",">> \o frac_text

\* AmazonPriceParser.extract_price
extract_price(p) ==
  LET price_span == IF p.offscreen # None THEN p.offscreen
                    ELSE p.core_offscreen
  IN IF price_span # None /\ price_span[1] # <<>>
       THEN parse_brazilian_currency(price_span[1])
       ELSE IF p.whole # None
              THEN LET frac_text == IF p.frac # None THEN p.frac[1]
                                    ELSE <<"0", "0">>
                   IN parse_brazilian_currency(Composed(p.whole[1], frac_text))
              ELSE None

\* ------------------------------------------------------ _random_retry_delay
\* Times are counted in units of 1/Resolution second.
\* random.uniform(-2, 5)
Jitters == (-2 * Resolution)..(5 * Resolution)

\* max(1, base + jitter)
random_retry_delay_noFloor(base, jitter) == base * Resolution + jitter
random_retry_delay(base, jitter) ==
  LET d == base * Resolution + jitter
  IN IF d > 1 * Resolution THEN d ELSE 1 * Resolution

\* ----------------------------------------------------- inputs of the functions
\* Characters of the enumerated texts: two digits, both separators, a letter.
Alphabet == {"1", "5", ".", ",", "R"}

ExampleTexts ==
  { <<"R", "$", " ", "1", ".", "2", "3", "4", ",", "5", "6">>,
    <<"R", "$", " ", "1", ".", "4", "9", "9", ",", "9", "9">>,
    <<"1", ".", "4", "9", "9", ",", ",", "9", "9">>,
    <<"1", "0", "0", ",", "5", "0">> }

Texts == (UNION {[1..n -> Alphabet] : n \in 0..MaxTextLen}) \cup ExampleTexts

\* Stripped texts of the nodes of the pages.
PageTexts ==
  { <<>>,
    <<"R", "$", " ", "1", ".", "4", "9", "9", ",", "9", "9">>,
    <<"R", "$", " ", "2", "0", ",", "0", "0">>,
    <<"1", ".", "4", "9", "9">>,
    <<"9", "9">>,
    <<"R", "$">> }

OptText == {None} \cup {Some(t) : t \in PageTexts}

\* A node matching the second selector also matches the first.
Pages ==
  { p \in [offscreen : OptText, core_offscreen : OptText, whole : OptText,
           frac : OptText] :
      p.offscreen = None => p.core_offscreen = None }

EmptyPage ==
  [offscreen |-> None, core_offscreen |-> None, whole |-> None, frac |-> None]

\* self._retry_delay_seconds = int(...): any integer.
BaseDelays == (0 - 6)..MaxBaseDelay

\* No function has been applied.
PureIdle ==
  /\ text = <<>>
  /\ page = EmptyPage
  /\ retry_delay_seconds = 0
  /\ parsed = None
  /\ delay = 0
  /\ applied = "none"

Init ==
  /\ \E n \in 0..MaxProducts : products \in [1..n -> Product]
  /\ max_retries \in 0..MaxRetriesBound
  /\ pc = "cycle"
  /\ idx = 0
  /\ attempts = 0
  /\ last_html = None
  /\ current_price = None
  /\ artifact = None
  /\ count = ZeroCount
  /\ tally = ZeroTally
  /\ passTrace = <<>>
  /\ fetched = None
  /\ PureIdle

\* ------------------------------------------------------------ run_forever
\* Top of the while True loop: check_once starts its for loop.
BeginCycle ==
  /\ pc = "cycle"
  /\ passTrace' = <<>>
  /\ IF Len(products) >= 1
       THEN idx' = 1 /\ pc' = "item"
       ELSE idx' = 0 /\ pc' = "cycle_sleep"
  /\ UNCHANGED <<config, pure, fetched, attempts, last_html, current_price, artifact,
                 count, tally>>

\* time.sleep(self._interval_between_cycles)
CycleSleep ==
  /\ pc = "cycle_sleep"
  /\ passTrace' = Append(passTrace, "cycle_sleep")
  /\ pc' = "cycle"
  /\ UNCHANGED <<config, pure, fetched, idx, attempts, last_html, current_price, artifact,
                 count, tally>>

\* ------------------------------------------------------------- check_once
\* The guard of the inter-item sleep: idx < len(self._products).
SleepBetween_afterLast(i, n) == i <= n
SleepBetween(i, n) == i < n

\* The for loop moves to the next product, or check_once returns.
Advance_skips ==
  IF idx < Len(products)
    THEN idx' = (IF idx + 2 <= Len(products) THEN idx + 2 ELSE idx + 1)
         /\ pc' = "item"
    ELSE idx' = idx /\ pc' = "cycle_sleep"
Advance ==
  IF idx < Len(products)
    THEN idx' = idx + 1 /\ pc' = "item"
    ELSE idx' = idx /\ pc' = "cycle_sleep"

CheckEnded == pc \in {"Resolved", "ExhaustedDone"}

ItemSleep ==
  /\ CheckEnded
  /\ SleepBetween(idx, Len(products))
  /\ passTrace' = Append(passTrace, "item_sleep")
  /\ Advance
  /\ UNCHANGED <<config, pure, fetched, attempts, last_html, current_price, artifact,
                 count, tally>>

EndPass ==
  /\ CheckEnded
  /\ ~SleepBetween(idx, Len(products))
  /\ Advance
  /\ UNCHANGED <<config, pure, fetched, attempts, last_html, current_price, artifact,
                 count, tally, passTrace>>

\* -------------------------------------------------- _check_single_product
\* Entry: attempts = 0, last_html = None.
StartCheck ==
  /\ pc = "item"
  /\ attempts' = 0
  /\ last_html' = None
  /\ current_price' = None
  /\ count' = ZeroCount
  /\ tally' = ZeroTally
  /\ passTrace' = Append(passTrace, "check")
  /\ fetched' = None
  /\ pc' = "loop"
  /\ UNCHANGED <<config, pure, idx, artifact>>

\* while attempts <= self._max_retries_per_product
LoopGuard_oneMore(a, m) == a <= m + 1
LoopGuard(a, m) == a <= m

\* attempts += 1; html = fetch_html(product); last_html = html
FetchOk ==
  /\ pc = "loop"
  /\ LoopGuard(attempts, max_retries)
  /\ attempts' = attempts + 1
  /\ \E body \in Bodies : last_html' = Some(body) /\ fetched' = Some(body)
  /\ count' = Bump(count, "fetch")
  /\ pc' = "parse"
  /\ UNCHANGED <<config, pure, idx, current_price, artifact, tally, passTrace>>

\* attempts += 1; fetch_html raises; except Exception logs the error
FetchFail_propagates ==
  /\ pc = "loop"
  /\ LoopGuard(attempts, max_retries)
  /\ attempts' = attempts + 1
  /\ count' = Bump(count, "fetch")
  /\ tally' = Bump(tally, "transport")
  /\ fetched' = None
  /\ pc' = "crashed"
  /\ UNCHANGED <<config, pure, idx, last_html, current_price, artifact, passTrace>>
FetchFail_freeRetry ==
  /\ pc = "loop"
  /\ LoopGuard(attempts, max_retries)
  /\ attempts' = attempts
  /\ count' = Bump(count, "fetch")
  /\ tally' = Bump(tally, "transport")
  /\ fetched' = None
  /\ pc' = "backoff"
  /\ UNCHANGED <<config, pure, idx, last_html, current_price, artifact, passTrace>>
FetchFail_forgetsBody ==
  /\ pc = "loop"
  /\ LoopGuard(attempts, max_retries)
  /\ attempts' = attempts + 1
  /\ count' = Bump(count, "fetch")
  /\ tally' = Bump(tally, "transport")
  /\ fetched' = None
  /\ last_html' = None
  /\ pc' = "backoff"
  /\ UNCHANGED <<config, pure, idx, current_price, artifact, passTrace>>
FetchFail ==
  /\ pc = "loop"
  /\ LoopGuard(attempts, max_retries)
  /\ attempts' = attempts + 1
  /\ count' = Bump(count, "fetch")
  /\ tally' = Bump(tally, "transport")
  /\ fetched' = None
  /\ pc' = "backoff"
  /\ UNCHANGED <<config, pure, idx, last_html, current_price, artifact, passTrace>>

\* The while condition is false: fall through to the definitive failure.
LoopExit ==
  /\ pc = "loop"
  /\ ~LoopGuard(attempts, max_retries)
  /\ pc' = "Exhausted"
  /\ UNCHANGED <<config, pure, fetched, idx, attempts, last_html, current_price, artifact,
                 count, tally, passTrace>>

\* current_price = extract_price(html), a price
ParsePrice ==
  /\ pc = "parse"
  /\ \E p \in Prices : current_price' = Some(p)
  /\ pc' = "gate"
  /\ UNCHANGED <<config, pure, fetched, idx, attempts, last_html, artifact, count, tally,
                 passTrace>>

\* current_price = extract_price(html), None: the warning is logged
ParseNone_givesUp ==
  /\ pc = "parse"
  /\ current_price' = None
  /\ tally' = Bump(tally, "miss")
  /\ pc' = "Exhausted"
  /\ UNCHANGED <<config, pure, fetched, idx, attempts, last_html, artifact, count,
                 passTrace>>
ParseNone ==
  /\ pc = "parse"
  /\ current_price' = None
  /\ tally' = Bump(tally, "miss")
  /\ pc' = "backoff"
  /\ UNCHANGED <<config, pure, fetched, idx, attempts, last_html, artifact, count,
                 passTrace>>

\* extract_price raises; except Exception logs the error
ParseRaise ==
  /\ pc = "parse"
  /\ tally' = Bump(tally, "parse_error")
  /\ pc' = "backoff"
  /\ UNCHANGED <<config, pure, fetched, idx, attempts, last_html, current_price, artifact,
                 count, passTrace>>

\* if current_price <= product.target_price
ShouldNotify_strict(price, target) == price < target
ShouldNotify(price, target) == price <= target

Target == products[idx].target_price

\* The gate is false: return without notifying.
GateSkip_fallsThrough ==
  /\ pc = "gate"
  /\ ~ShouldNotify(current_price[1], Target)
  /\ count' = Bump(count, "gate")
  /\ tally' = Bump(tally, "miss")
  /\ pc' = "backoff"
  /\ UNCHANGED <<config, pure, fetched, idx, attempts, last_html, current_price, artifact,
                 passTrace>>
GateSkip ==
  /\ pc = "gate"
  /\ ~ShouldNotify(current_price[1], Target)
  /\ count' = Bump(count, "gate")
  /\ tally' = Bump(tally, "resolved")
  /\ pc' = "Resolved"
  /\ UNCHANGED <<config, pure, fetched, idx, attempts, last_html, current_price, artifact,
                 passTrace>>

\* The gate is true, notify returns, then return.
NotifyOk ==
  /\ pc = "gate"
  /\ ShouldNotify(current_price[1], Target)
  /\ count' = Bump(Bump(count, "gate"), "notify")
  /\ tally' = Bump(tally, "resolved")
  /\ pc' = "Resolved"
  /\ UNCHANGED <<config, pure, fetched, idx, attempts, last_html, current_price, artifact,
                 passTrace>>

\* The gate is true, notify raises inside the try: the except clause of the
\* attempt catches it, the return is skipped.
NotifyFail ==
  /\ pc = "gate"
  /\ ShouldNotify(current_price[1], Target)
  /\ count' = Bump(Bump(count, "gate"), "notify")
  /\ tally' = Bump(tally, "delivery")
  /\ pc' = "backoff"
  /\ UNCHANGED <<config, pure, fetched, idx, attempts, last_html, current_price, artifact,
                 passTrace>>

\* if attempts <= self._max_retries_per_product: time.sleep(delay)
NeedsWait_afterLast(a, m) == a <= m + 1
NeedsWait(a, m) == a <= m

RetryWait ==
  /\ pc = "backoff"
  /\ NeedsWait(attempts, max_retries)
  /\ count' = Bump(count, "wait")
  /\ pc' = "loop"
  /\ UNCHANGED <<config, pure, fetched, idx, attempts, last_html, current_price, artifact,
                 tally, passTrace>>

SkipWait ==
  /\ pc = "backoff"
  /\ ~NeedsWait(attempts, max_retries)
  /\ pc' = "loop"
  /\ UNCHANGED <<config, pure, fetched, idx, attempts, last_html, current_price, artifact,
                 count, tally, passTrace>>

\* if last_html: open("last_failed.html", "w") ... f.write(last_html)
ShouldArchive(h) == Truthy(h)

ArchiveWrite ==
  /\ pc = "Exhausted"
  /\ ShouldArchive(last_html)
  /\ count' = Bump(count, "archive")
  /\ artifact' = last_html
  /\ pc' = "ExhaustedDone"
  /\ UNCHANGED <<config, pure, fetched, idx, attempts, last_html, current_price, tally,
                 passTrace>>

\* open or write raises OSError outside any try: the exception leaves
\* _check_single_product, check_once and run_forever.  The file is untouched
\* when open fails and truncated when the write fails.
ArchiveFail ==
  /\ pc = "Exhausted"
  /\ ShouldArchive(last_html)
  /\ count' = Bump(count, "archive")
  /\ artifact' \in {artifact, Some("")}
  /\ pc' = "crashed"
  /\ UNCHANGED <<config, pure, fetched, idx, attempts, last_html, current_price, tally,
                 passTrace>>

ArchiveSkip ==
  /\ pc = "Exhausted"
  /\ ~ShouldArchive(last_html)
  /\ pc' = "ExhaustedDone"
  /\ UNCHANGED <<config, pure, fetched, idx, attempts, last_html, current_price, artifact,
                 count, tally, passTrace>>

Next ==
  \/ BeginCycle
  \/ CycleSleep
  \/ ItemSleep
  \/ EndPass
  \/ StartCheck
  \/ FetchOk
  \/ FetchFail
  \/ LoopExit
  \/ ParsePrice
  \/ ParseNone
  \/ ParseRaise
  \/ GateSkip
  \/ NotifyOk
  \/ NotifyFail
  \/ RetryWait
  \/ SkipWait
  \/ ArchiveWrite
  \/ ArchiveFail
  \/ ArchiveSkip

Spec == Init /\ [][Next]_vars

\* ------------------------------------------- the functions on their own
\* The monitor has not started and tracks nothing.
MonitorIdle ==
  /\ products = <<>>
  /\ max_retries = 0
  /\ pc = "cycle"
  /\ idx = 0
  /\ attempts = 0
  /\ last_html = None
  /\ current_price = None
  /\ artifact = None
  /\ count = ZeroCount
  /\ tally = ZeroTally
  /\ passTrace = <<>>
  /\ fetched = None

PureInit ==
  /\ MonitorIdle
  /\ parsed = None
  /\ delay = 0
  /\ applied = "none"
  /\ \/ text \in Texts /\ page = EmptyPage /\ retry_delay_seconds = 0
     \/ text = <<>> /\ page \in Pages /\ retry_delay_seconds = 0
     \/ text = <<>> /\ page = EmptyPage /\ retry_delay_seconds \in BaseDelays

\* _parse_brazilian_currency(text)
ApplyNormalize ==
  /\ applied = "none"
  /\ parsed' = parse_brazilian_currency(text)
  /\ applied' = "normalize"
  /\ UNCHANGED <<monitor, text, page, retry_delay_seconds, delay>>

\* extract_price(html)
ApplyExtract ==
  /\ applied = "none"
  /\ parsed' = extract_price(page)
  /\ applied' = "extract"
  /\ UNCHANGED <<monitor, text, page, retry_delay_seconds, delay>>

\* delay = self._random_retry_delay(), once per retry wait; attempts counts
\* the calls.
ApplyDelay ==
  /\ applied \in {"none", "delay"}
  /\ attempts < MaxDelayCalls
  /\ \E jitter \in Jitters :
       delay' = random_retry_delay(retry_delay_seconds, jitter)
  /\ attempts' = attempts + 1
  /\ applied' = "delay"
  /\ UNCHANGED <<products, max_retries, pc, idx, last_html, current_price,
                 artifact, count, tally, passTrace, fetched, text, page,
                 retry_delay_seconds, parsed>>

PureNext ==
  \/ ApplyNormalize
  \/ ApplyExtract
  \/ ApplyDelay

PureSpec == PureInit /\ [][PureNext]_vars

\* Every step of the monitor is eventually taken when it can be: each
\* collaborator call and each sleep returns.
FairSpec == Spec /\ WF_vars(Next)

TypeOK ==
  /\ products \in Seq(Product) /\ Len(products) <= MaxProducts
  /\ max_retries \in 0..MaxRetriesBound
  /\ pc \in {"cycle", "cycle_sleep", "item", "loop", "parse", "gate",
             "backoff", "Exhausted", "ExhaustedDone", "Resolved", "crashed"}
  /\ idx \in 0..Len(products)
  /\ attempts \in 0..(max_retries + 1)
  /\ last_html \in {None} \cup {Some(b) : b \in Bodies}
  /\ current_price \in {None} \cup {Some(p) : p \in Prices}
  /\ artifact \in {None} \cup {Some(b) : b \in Bodies}
  /\ count \in [Calls -> Nat]
  /\ tally \in [Kinds -> Nat]
  /\ passTrace \in Seq({"check", "item_sleep", "cycle_sleep"})
  /\ fetched \in {None} \cup {Some(b) : b \in Bodies}
  /\ PureIdle

\* ----------------------------------------------------------------- claims
InCheck == pc \in {"loop", "parse", "gate", "backoff", "Exhausted",
                   "ExhaustedDone", "Resolved"}

\* An attempt of the current check ended in one of the caught failures.
FailureStep ==
  \E k \in {"transport", "miss", "parse_error", "delivery"} :
    tally'[k] = tally[k] + 1

\* C1: once the notifier has failed in a check, that check makes no further
\* fetch, takes no retry wait and consumes no further attempt.
C1_NoRetryAfterDeliveryFailure ==
  [][(tally["delivery"] > 0 /\ tally'["delivery"] > 0)
       => (count'["fetch"] = count["fetch"] /\ count'["wait"] = count["wait"]
           /\ attempts' = attempts)]_vars

\* C2: the failure artifact is written during a check only if all
\* max_retries + 1 attempts were made and none of them extracted a price.
C2_ArchiveOnlyWithoutPrice ==
  count["archive"] > 0
    => (tally["resolved"] = 0 /\ tally["delivery"] = 0
        /\ attempts = max_retries + 1)

\* C3: within one check the notifier is invoked at most once.
C3_NotifyAtMostOnce == count["notify"] <= 1

\* C4: a step invokes the notifier if and only if it is the gate of an
\* attempt that fetched a body and extracted a price with price <= target.
C4_NotifyIffAtOrBelowTarget ==
  [][(count'["notify"] = count["notify"] + 1)
       <=> (pc = "gate" /\ last_html # None /\ current_price # None
            /\ current_price[1] <= Target)]_vars

C4_Witness ==
  /\ pc = "Resolved"
  /\ count["notify"] = 1
  /\ current_price = Some(Target)

\* C5: the number of fetch attempts of a check never exceeds
\* max_retries + 1.
C5_AttemptsBounded ==
  /\ attempts <= max_retries + 1
  /\ count["fetch"] <= max_retries + 1

C5_Witness ==
  /\ max_retries = MaxRetriesBound
  /\ count["fetch"] = max_retries + 1
  /\ pc = "backoff"

\* C6: when every attempt ends in a transport failure or an absent
\* extraction, each of them consumes exactly one attempt and Exhausted is
\* reached after exactly max_retries + 1 fetches.
C6_ExactBudgetBeforeExhausted ==
  (InCheck /\ tally["resolved"] = 0 /\ tally["delivery"] = 0
     /\ tally["parse_error"] = 0)
    => /\ count["fetch"] = attempts
       /\ tally["transport"] + tally["miss"]
            = attempts - (IF pc \in {"parse", "gate"} THEN 1 ELSE 0)
       /\ pc \in {"Exhausted", "ExhaustedDone"}
            => count["fetch"] = max_retries + 1

C6_Witness ==
  /\ pc = "Exhausted"
  /\ max_retries = 2
  /\ count["fetch"] = 3
  /\ tally["transport"] >= 1
  /\ tally["miss"] >= 1
  /\ tally["transport"] + tally["miss"] = 3

\* C7: a check that ended Exhausted invoked the Failure Archiver exactly
\* once, with lastBody, if some attempt produced a body (whatever its
\* content), and did not invoke it if no attempt produced a body.
C7_ArchiveOnceIffBody ==
  pc = "ExhaustedDone"
    => IF last_html # None
         THEN count["archive"] = 1 /\ artifact = last_html
         ELSE count["archive"] = 0

\* C8: a check that resolved without a delivery failure made exactly one
\* fetch more than the attempts that yielded no price, evaluated the gate
\* once, never archived, and makes no fetch or retry wait afterwards.
C8_ResolvedIsTerminal ==
  /\ [](pc = "Resolved" /\ tally["delivery"] = 0
          => /\ count["fetch"]
                  = tally["transport"] + tally["miss"]
                      + tally["parse_error"] + 1
             /\ attempts = count["fetch"]
             /\ attempts <= max_retries + 1
             /\ count["wait"] = count["fetch"] - 1
             /\ count["gate"] = 1
             /\ count["notify"]
                  = (IF current_price[1] <= Target THEN 1 ELSE 0)
             /\ count["archive"] = 0)
  /\ [][pc = "Resolved"
          => (count' = count /\ attempts' = attempts
              /\ pc' \in {"item", "cycle_sleep"})]_vars

C8_Witness ==
  /\ pc = "Resolved"
  /\ tally["delivery"] = 0
  /\ tally["transport"] = 1
  /\ count["fetch"] = 2
  /\ count["notify"] = 1
  /\ attempts <= max_retries

\* The checks and sleeps of one complete pass over n >= 1 items.
ExpectedPass(n) ==
  [j \in 1..(2 * n) |->
     IF j = 2 * n THEN "cycle_sleep"
     ELSE IF j % 2 = 1 THEN "check" ELSE "item_sleep"]

IsPrefix(s, t) ==
  /\ Len(s) <= Len(t)
  /\ \A j \in 1..Len(s) : s[j] = t[j]

\* C9: in a pass over n >= 1 items the checks alternate with the inter-item
\* sleeps, n - 1 of them and none after the last item, and one inter-cycle
\* sleep follows the last check before the next pass starts.
C9_PacingPerPass ==
  Len(products) >= 1
    => /\ IsPrefix(passTrace, ExpectedPass(Len(products)))
       /\ InCheck => Len(passTrace) = 2 * idx - 1
       /\ pc = "item" => Len(passTrace) = 2 * idx - 2
       /\ pc = "cycle_sleep" => Len(passTrace) = 2 * Len(products) - 1
       /\ (pc = "cycle" /\ passTrace # <<>>)
            => passTrace = ExpectedPass(Len(products))

C9_Witness ==
  /\ pc = "cycle"
  /\ Len(products) = 3
  /\ passTrace = <<"check", "item_sleep", "check", "item_sleep", "check",
                   "cycle_sleep">>

\* C10: a failure of the fetcher, the extractor or the notifier is caught
\* inside the check: it never ends the process or changes the item; only the
\* artifact write can end the process; every check starts with a fresh
\* budget, the next item follows every ended check, and the pass ends only
\* after all items were checked.
C10_CollaboratorFailuresContained ==
  /\ [][FailureStep
          => (pc' = "backoff" /\ idx' = idx /\ products' = products)]_vars
  /\ [][pc' = "crashed" => pc \in {"Exhausted", "crashed"}]_vars
  /\ [][pc = "item"
          => (pc' = "loop" /\ idx' = idx /\ attempts' = 0
              /\ last_html' = None /\ count' = ZeroCount)]_vars
  /\ [][(CheckEnded /\ idx < Len(products))
          => (pc' = "item" /\ idx' = idx + 1)]_vars
  /\ [](pc = "cycle_sleep" => idx = Len(products))
  /\ [](pc # "crashed" => ENABLED Next)

C10_Witness ==
  /\ pc = "backoff"
  /\ idx = 1
  /\ Len(products) >= 2
  /\ tally["transport"] >= 1
  /\ tally["parse_error"] >= 1
  /\ tally["delivery"] >= 1

\* C11: the monitor loop never stops, and every tracked item is checked
\* again and again, each check starting with attempt count 0, no lastBody
\* and no call made.
C11_EveryItemCheckedForever ==
  /\ []<>(pc = "cycle")
  /\ \A i \in 1..MaxProducts :
       []<>(i <= Len(products)
              => (pc = "loop" /\ idx = i /\ attempts = 0 /\ last_html = None
                  /\ count = ZeroCount))

\* The number of checks started in the pass so far.
NumChecks(trace) == Cardinality({j \in 1..Len(trace) : trace[j] = "check"})

\* C12: in every pass the items are checked in list order, each once: the
\* index only moves from an ended check to the next item (or to item 1 when
\* a pass begins), a check starts only after the previous one ended, the
\* i-th check of the pass is the check of item i, a pass ends after exactly
\* n checks, and every fetch begins and ends within one step of the thread.
C12_InOrderOnceEach ==
  /\ [][idx' # idx
          => \/ CheckEnded /\ idx' = idx + 1 /\ pc' = "item"
             \/ pc = "cycle" /\ idx' = 1 /\ pc' = "item"]_vars
  /\ [][(pc' = "item" /\ pc # "item") => (CheckEnded \/ pc = "cycle")]_vars
  /\ [][count'["fetch"] = count["fetch"] + 1
          => (pc = "loop" /\ pc' \in {"parse", "backoff"}
              /\ idx' = idx)]_vars
  /\ [](InCheck => NumChecks(passTrace) = idx)
  /\ [](pc = "item" => NumChecks(passTrace) = idx - 1)
  /\ []((pc = "cycle_sleep" /\ Len(products) >= 1)
          => (idx = Len(products) /\ NumChecks(passTrace) = Len(products)))

C12_Witness ==
  /\ Len(products) = 3
  /\ products[2] = products[3]
  /\ pc = "loop"
  /\ idx = 3
  /\ NumChecks(passTrace) = 3

\* A float value returned by the parser functions.
IsFloat(v) == v \in Nat \X Nat

\* The full-price node of a page: the first node matching span.a-offscreen.
FullPrice(p) == p.offscreen

\* C13: extract_price returns the normalization of the full-price node's
\* text when that node exists and is not empty; otherwise, when a whole-part
\* node exists, the normalization of "<whole>,<fraction>", the fraction being
\* "00" without a fraction node; otherwise absent; the result is always
\* absent or a number (whole "1.499" and fraction "99" give 1499.99).
C13_ExtractorFallbackChain ==
  applied = "extract"
    => /\ parsed = None \/ (Len(parsed) = 1 /\ IsFloat(parsed[1]))
       /\ parsed =
            IF FullPrice(page) # None /\ FullPrice(page)[1] # <<>>
              THEN parse_brazilian_currency(FullPrice(page)[1])
            ELSE IF page.whole # None
              THEN parse_brazilian_currency(
                     page.whole[1] \o <<",">>
                       \o (IF page.frac # None THEN page.frac[1]
                           ELSE <<"0", "0">>))
            ELSE None
       /\ (FullPrice(page) = None
             /\ page.whole = Some(<<"1", ".", "4", "9", "9">>)
             /\ page.frac = Some(<<"9", "9">>))
            => parsed = Some(<<149999, 2>>)
       /\ (FullPrice(page) = None
             /\ page.whole = Some(<<"1", ".", "4", "9", "9">>)
             /\ page.frac = None)
            => parsed = Some(<<1499, 0>>)

C13_Witness ==
  /\ applied = "extract"
  /\ page.offscreen = None
  /\ page.whole = Some(<<"1", ".", "4", "9", "9">>)
  /\ page.frac = Some(<<"9", "9">>)
  /\ parsed = Some(<<149999, 2>>)

\* The digits of a text, in order, and its number of commas.
DigitsOf(t) == SelectSeq(t, LAMBDA c : c \in Digits)
CommasOf(t) == Cardinality({i \in 1..Len(t) : t[i] = ","})

\* The number of digits of a text after its first comma (0 without comma).
DigitsAfterComma(t) ==
  IF CommasOf(t) = 0 THEN 0
  ELSE LET k == CHOOSE i \in 1..Len(t) :
                  t[i] = "," /\ \A j \in 1..(i - 1) : t[j] # ","
       IN Len(DigitsOf(SubSeq(t, k + 1, Len(t))))

\* C14: _parse_brazilian_currency always returns absent or a number; it
\* returns absent exactly for the texts without a digit (so for ",.") and
\* for those with more than one comma; otherwise the number written by the
\* digits of the text, those after the comma being the decimals, dots
\* ignored ("R$ 1.234,56" gives 1234.56).
C14_NormalizerTotalAndLocale ==
  applied = "normalize"
    => /\ parsed = None \/ (Len(parsed) = 1 /\ IsFloat(parsed[1]))
       /\ parsed = None <=> (DigitsOf(text) = <<>> \/ CommasOf(text) >= 2)
       /\ parsed # None
            => parsed = Some(Canon(DigitsToInt(DigitsOf(text)),
                                   DigitsAfterComma(text)))
       /\ text = <<",", ".">> => parsed = None
       /\ text = <<"R", "$", " ", "1", ".", "2", "3", "4", ",", "5", "6">>
            => parsed = Some(<<123456, 2>>)

C14_Witness ==
  /\ applied = "normalize"
  /\ text = <<"R", "$", " ", "1", ".", "2", "3", "4", ",", "5", "6">>
  /\ parsed = Some(<<123456, 2>>)

\* C15: a check that has made a attempts has taken a - 1 retry waits, or a
\* waits when the wait before its next attempt is already over; so no wait
\* follows the last attempt of the budget or the attempt that resolved the
\* item, a wait is only taken after an attempt that leaves budget, and none
\* is taken with max_retries = 0.
C15_OneWaitBetweenAttempts ==
  /\ [](InCheck
          => /\ count["wait"] =
                  IF pc = "loop" /\ attempts <= max_retries
                    THEN count["fetch"]
                    ELSE count["fetch"] - 1
             /\ count["wait"] <= max_retries
             /\ max_retries = 0 => count["wait"] = 0)
  /\ [][count'["wait"] # count["wait"] /\ pc # "item"
          => (pc = "backoff" /\ pc' = "loop" /\ attempts <= max_retries
              /\ count'["wait"] = count["wait"] + 1
              /\ count'["fetch"] = count["fetch"])]_vars

C15_Witness ==
  /\ pc = "Exhausted"
  /\ max_retries = 2
  /\ count["fetch"] = 3
  /\ count["wait"] = 2

\* C16: a failure while writing the artifact stays inside the check: every
\* invocation of the archiver, failing or not, is followed by the normal end
\* of the check, and the process never ends.
C16_ArchiveFailureContained ==
  /\ [][(pc = "Exhausted" /\ count'["archive"] = count["archive"] + 1)
          => pc' = "ExhaustedDone"]_vars
  /\ [](pc # "crashed")

\* C17: the artifact changes only when a check that reached Exhausted with a
\* body ends, and then becomes exactly that lastBody; every other step
\* leaves it as it is.
C17_ArtifactLastWriterWins ==
  [][artifact' = (IF pc = "Exhausted" /\ last_html # None
                    THEN last_html ELSE artifact)]_vars

\* C18: every value of _random_retry_delay is at least 1 second and is
\* max(1, base + j) for a jitter j in [-2, 5]; it is at most base + 5 when
\* base >= -4 and at least base - 2 when base >= 3; this holds alike for the
\* first and for every later call (times in units of 1/Resolution second).
C18_DelayFlooredAndBounded ==
  applied = "delay"
    => /\ delay >= Resolution
       /\ \E j \in (-2 * Resolution)..(5 * Resolution) :
            \/ delay = retry_delay_seconds * Resolution + j
            \/ (delay = Resolution
                  /\ retry_delay_seconds * Resolution + j <= Resolution)
       /\ retry_delay_seconds >= -4
            => delay <= (retry_delay_seconds + 5) * Resolution
       /\ retry_delay_seconds >= 3
            => delay >= (retry_delay_seconds - 2) * Resolution

C18_Witness ==
  /\ applied = "delay"
  /\ attempts = 2
  /\ retry_delay_seconds = 0
  /\ delay = Resolution

\* C19: last_html is None when a check starts and changes only when a fetch
\* of that check returns, to the body returned; a fetch that fails leaves it
\* as it is; the body archived on exhaustion is last_html.
C19_LastBodyIsLatestFetched ==
  /\ [](fetched # None => last_html = fetched)
  /\ [][tally'["transport"] = tally["transport"] + 1
          => (last_html' = last_html /\ fetched' = None)]_vars
  /\ [][pc = "item" => last_html' = None]_vars
  /\ [][last_html' # last_html
          => \/ pc = "item"
             \/ /\ pc = "loop" /\ pc' = "parse"
                /\ count'["fetch"] = count["fetch"] + 1
                /\ fetched' # None /\ last_html' = fetched']_vars
  /\ [][(pc = "Exhausted" /\ pc' = "ExhaustedDone"
           /\ count'["archive"] = count["archive"] + 1)
          => artifact' = last_html]_vars

C19_Witness ==
  /\ pc = "ExhaustedDone"
  /\ idx = 2
  /\ count["fetch"] = 3
  /\ tally["miss"] = 2
  /\ tally["transport"] = 1
  /\ fetched = None
  /\ last_html = Some("B")
  /\ artifact = Some("B")

\* C20: every check ends: a check in progress reaches Resolved or Exhausted,
\* never both, after at most max_retries + 1 fetches and max_retries waits.
C20_CheckTerminates ==
  /\ [](count["fetch"] <= max_retries + 1 /\ count["wait"] <= max_retries)
  /\ (pc \in {"loop", "parse", "gate", "backoff"})
       ~> (pc \in {"Resolved", "Exhausted"})
  /\ [][pc = "Resolved"
          => (pc' \in {"Resolved", "item", "cycle_sleep"})]_vars
  /\ [][(pc = "Exhausted" \/ pc = "ExhaustedDone")
          => (pc' \in {"Exhausted", "ExhaustedDone", "crashed", "item",
                       "cycle_sleep"})]_vars

C20_Witness ==
  /\ pc = "Exhausted"
  /\ max_retries = 2
  /\ count["fetch"] = 3
  /\ count["wait"] = 2
  /\ tally["transport"] = 1
  /\ tally["miss"] = 1
  /\ tally["delivery"] = 1
====
